---- MODULE Spec2Model ----
(***************************************************************************)
(* Model of planetlabs/linkin: the two codecs for linkerd's l5d-ctx-trace  *)
(* header.                                                                 *)
(*   - FromL5D / ToL5D (linkin.go): l5d-ctx-trace <-> Zipkin X-B3-* headers*)
(*   - HTTPFormat.SpanContextFromRequest / SpanContextToRequest and the    *)
(*     sampler `sample` (OpenCensus propagation format).                   *)
(* Header values are Go strings, modelled as sequences of ASCII codes;     *)
(* byte slices are sequences of 0..255.                                    *)
(***************************************************************************)
EXTENDS Integers, Sequences, FiniteSets, TLC

VARIABLES
    headers,     \* the http.Header (r.Header) the last call operated on, after the call
    inHeaders,   \* the same collection as it was passed to the last call that may write it
    sc,          \* SpanContext returned by the last SpanContextFromRequest
    ok,          \* the ok result of the last SpanContextFromRequest
    inSC,        \* SpanContext passed to the last SpanContextToRequest
    panicked,    \* the last call ended in a run-time panic
    sampled,     \* result of the last direct call of sample
    inSample,    \* arguments of the last direct call of sample
    sampleSalt,  \* process-wide salt, drawn once at start
    given,       \* what the caller put into the header values of the last request
    op,          \* the last operation performed
    hops         \* number of downstream hops the current request went through

vars == <<headers, inHeaders, sc, ok, inSC, panicked, sampled, inSample,
          sampleSalt, given, op, hops>>

(***************************************************************************)
(* Bounds                                                                  *)
(***************************************************************************)
MaxHops == 2
NumIds == 2

(***************************************************************************)
(* Header names and constants                                              *)
(***************************************************************************)
l5dHeaderTrace == "l5d-ctx-trace"
l5dHeaderSample == "l5d-sample"
zipkinHeaderTraceID == "X-B3-TraceId"
zipkinHeaderSpanID == "X-B3-SpanId"
zipkinHeaderParentSpanID == "X-B3-ParentSpanId"
zipkinHeaderSampled == "X-B3-Sampled"
zipkinHeaderFlags == "X-B3-Flags"

HeaderNames == {l5dHeaderTrace, l5dHeaderSample, zipkinHeaderTraceID,
                zipkinHeaderSpanID, zipkinHeaderParentSpanID,
                zipkinHeaderSampled, zipkinHeaderFlags}

ZipkinNames == {zipkinHeaderTraceID, zipkinHeaderSpanID, zipkinHeaderParentSpanID,
                zipkinHeaderSampled, zipkinHeaderFlags}

\* "1.0"
l5dForceSample == <<49, 46, 48>>

l5dTraceFlags == <<0, 0, 0, 0, 0, 0, 0, 6>>

(***************************************************************************)
(* net/http Header: name -> list of values; <<>> is an absent header.      *)
(***************************************************************************)
\* Header.Get: the first value, or "" when there is none.
Get(h, k) == IF h[k] = <<>> THEN <<>> ELSE h[k][1]

\* Header.Set: replaces every existing value by the single value v.
Set(h, k, v) == [h EXCEPT ![k] = <<v>>]

EmptyHeader == [k \in HeaderNames |-> <<>>]

(***************************************************************************)
(* Byte-slice helpers                                                      *)
(***************************************************************************)
Zeros(n) == [i \in 1..n |-> 0]

Min(a, b) == IF a < b THEN a ELSE b

\* Go slice expression s[lo:hi] (0-based, hi exclusive).
Slice(s, lo, hi) == SubSeq(s, lo + 1, hi)

\* Go builtin copy(dst[lo:hi], src): copies min(hi-lo, len(src)) elements.
Copy(dst, lo, hi, src) ==
    LET n == Min(hi - lo, Len(src))
    IN [i \in 1..Len(dst) |->
          IF i > lo /\ i <= lo + n THEN src[i - lo] ELSE dst[i]]

\* for i, b := range src { buf[off+i] = b }: an index past the end of buf
\* is a run-time panic (index out of range).
RangeAssign(buf, off, src) ==
    IF off + Len(src) > Len(buf)
    THEN [panic |-> TRUE, buf |-> buf]
    ELSE [panic |-> FALSE,
          buf |-> [i \in 1..Len(buf) |->
                     IF i > off /\ i <= off + Len(src) THEN src[i - off] ELSE buf[i]]]

(***************************************************************************)
(* encoding/hex                                                            *)
(***************************************************************************)
\* hextable = "0123456789abcdef"
HexChar(v) == IF v < 10 THEN 48 + v ELSE 97 + (v - 10)

RECURSIVE HexEncodeToString(_)
HexEncodeToString(src) ==
    IF Len(src) = 0 THEN <<>>
    ELSE <<HexChar(src[1] \div 16), HexChar(src[1] % 16)>>
         \o HexEncodeToString(Tail(src))

\* fromHexChar: -1 for a character that is not a hexadecimal digit.
FromHexChar(c) ==
    IF c >= 48 /\ c <= 57 THEN c - 48
    ELSE IF c >= 97 /\ c <= 102 THEN c - 97 + 10
    ELSE IF c >= 65 /\ c <= 70 THEN c - 65 + 10
    ELSE -1

RECURSIVE HexPairs(_)
HexPairs(s) ==
    IF Len(s) = 0 THEN <<>>
    ELSE <<FromHexChar(s[1]) * 16 + FromHexChar(s[2])>> \o HexPairs(SubSeq(s, 3, Len(s)))

\* hex.DecodeString: error on odd length or on any non-hex character.
HexDecodeString(s) ==
    IF Len(s) % 2 = 1 \/ (\E i \in 1..Len(s) : FromHexChar(s[i]) = -1)
    THEN [err |-> TRUE, bytes |-> <<>>]
    ELSE [err |-> FALSE, bytes |-> HexPairs(s)]

\* fmt.Sprintf("%016x", b) for a byte slice b: the hex digits of b, padded
\* on the left with '0' to a width of 16.
Sprintf016x(b) ==
    LET hx == HexEncodeToString(b)
    IN IF Len(hx) >= 16 THEN hx ELSE [i \in 1..(16 - Len(hx)) |-> 48] \o hx

(***************************************************************************)
(* encoding/base64, StdEncoding                                            *)
(***************************************************************************)
\* encodeStd = "ABC...XYZabc...xyz0123456789+/"
B64Char(v) ==
    IF v < 26 THEN 65 + v
    ELSE IF v < 52 THEN 97 + (v - 26)
    ELSE IF v < 62 THEN 48 + (v - 52)
    ELSE IF v = 62 THEN 43 ELSE 47

\* decodeMap: -1 for a character outside the alphabet.
B64Value(c) ==
    IF c >= 65 /\ c <= 90 THEN c - 65
    ELSE IF c >= 97 /\ c <= 122 THEN c - 97 + 26
    ELSE IF c >= 48 /\ c <= 57 THEN c - 48 + 52
    ELSE IF c = 43 THEN 62
    ELSE IF c = 47 THEN 63
    ELSE -1

\* '='
PadChar == 61

RECURSIVE Base64EncodeToString(_)
Base64EncodeToString(src) ==
    IF Len(src) = 0 THEN <<>>
    ELSE IF Len(src) = 1
    THEN <<B64Char(src[1] \div 4), B64Char((src[1] % 4) * 16), PadChar, PadChar>>
    ELSE IF Len(src) = 2
    THEN <<B64Char(src[1] \div 4),
           B64Char((src[1] % 4) * 16 + src[2] \div 16),
           B64Char((src[2] % 16) * 4), PadChar>>
    ELSE <<B64Char(src[1] \div 4),
           B64Char((src[1] % 4) * 16 + src[2] \div 16),
           B64Char((src[2] % 16) * 4 + src[3] \div 64),
           B64Char(src[3] % 64)>>
         \o Base64EncodeToString(SubSeq(src, 4, Len(src)))

\* The decoder skips '\r' and '\n' wherever they occur.
RECURSIVE StripNewlines(_)
StripNewlines(s) ==
    IF Len(s) = 0 THEN <<>>
    ELSE IF s[1] = 10 \/ s[1] = 13 THEN StripNewlines(Tail(s))
    ELSE <<s[1]>> \o StripNewlines(Tail(s))

\* The bytes of one quantum of dlen symbols (dlen in 2..4); the unused low
\* bits of a short quantum are dropped without being checked.
QuantumBytes(d0, d1, d2, d3, dlen) ==
    LET b0 == d0 * 4 + d1 \div 16
        b1 == (d1 % 16) * 16 + d2 \div 4
        b2 == (d2 % 4) * 64 + d3
    IN IF dlen = 4 THEN <<b0, b1, b2>>
       ELSE IF dlen = 3 THEN <<b0, b1>>
       ELSE <<b0>>

\* Decoding of a string without newlines, quantum by quantum.
RECURSIVE DecodeQuanta(_)
DecodeQuanta(s) ==
    LET bad == [err |-> TRUE, bytes |-> <<>>]
        v(i) == B64Value(s[i])
    IN IF Len(s) = 0 THEN [err |-> FALSE, bytes |-> <<>>]
       ELSE IF v(1) = -1 THEN bad
       ELSE IF Len(s) < 2 \/ v(2) = -1 THEN bad
       ELSE IF Len(s) < 3 THEN bad
       ELSE IF v(3) = -1
       THEN \* "==" must follow two symbols and end the input
            IF s[3] = PadChar /\ Len(s) = 4 /\ s[4] = PadChar
            THEN [err |-> FALSE, bytes |-> QuantumBytes(v(1), v(2), 0, 0, 2)]
            ELSE bad
       ELSE IF Len(s) < 4 THEN bad
       ELSE IF v(4) = -1
       THEN IF s[4] = PadChar /\ Len(s) = 4
            THEN [err |-> FALSE, bytes |-> QuantumBytes(v(1), v(2), v(3), 0, 3)]
            ELSE bad
       ELSE LET rest == DecodeQuanta(SubSeq(s, 5, Len(s)))
            IN IF rest.err THEN bad
               ELSE [err |-> FALSE,
                     bytes |-> QuantumBytes(v(1), v(2), v(3), v(4), 4) \o rest.bytes]

\* base64.StdEncoding.DecodeString
Base64DecodeString(s) == DecodeQuanta(StripNewlines(s))

(***************************************************************************)
(* linkin.go: the Zipkin text-header codec                                 *)
(***************************************************************************)
\* FromL5D with the length guard reduced to a lower bound.
FromL5D_AtLeast32(h) ==
    LET d == Base64DecodeString(Get(h, l5dHeaderTrace))
        b == d.bytes
    IN IF d.err THEN h
       ELSE IF Len(b) < 32 THEN h
       ELSE LET h1 == IF Len(b) = 40
                      THEN Set(h, zipkinHeaderTraceID,
                               Sprintf016x(Slice(b, 32, Len(b))) \o Sprintf016x(Slice(b, 16, 24)))
                      ELSE Set(h, zipkinHeaderTraceID, Sprintf016x(Slice(b, 16, 24)))
                h2 == Set(h1, zipkinHeaderSpanID, HexEncodeToString(Slice(b, 0, 8)))
                parentID == HexEncodeToString(Slice(b, 8, 16))
            IN IF parentID # <<>> THEN Set(h2, zipkinHeaderParentSpanID, parentID) ELSE h2

\* FromL5D writing the trace id low half first.
FromL5D_LowHigh(h) ==
    LET d == Base64DecodeString(Get(h, l5dHeaderTrace))
        b == d.bytes
    IN IF d.err THEN h
       ELSE IF Len(b) # 32 /\ Len(b) # 40 THEN h
       ELSE LET h1 == IF Len(b) = 40
                      THEN Set(h, zipkinHeaderTraceID,
                               Sprintf016x(Slice(b, 16, 24)) \o Sprintf016x(Slice(b, 32, Len(b))))
                      ELSE Set(h, zipkinHeaderTraceID, Sprintf016x(Slice(b, 16, 24)))
                h2 == Set(h1, zipkinHeaderSpanID, HexEncodeToString(Slice(b, 0, 8)))
                parentID == HexEncodeToString(Slice(b, 8, 16))
            IN IF parentID # <<>> THEN Set(h2, zipkinHeaderParentSpanID, parentID) ELSE h2

FromL5D(h) ==
    LET d == Base64DecodeString(Get(h, l5dHeaderTrace))
        b == d.bytes
    IN IF d.err THEN h
       ELSE IF Len(b) # 32 /\ Len(b) # 40 THEN h
       ELSE LET h1 == IF Len(b) = 40
                      THEN Set(h, zipkinHeaderTraceID,
                               Sprintf016x(Slice(b, 32, Len(b))) \o Sprintf016x(Slice(b, 16, 24)))
                      ELSE Set(h, zipkinHeaderTraceID, Sprintf016x(Slice(b, 16, 24)))
                h2 == Set(h1, zipkinHeaderSpanID, HexEncodeToString(Slice(b, 0, 8)))
                parentID == HexEncodeToString(Slice(b, 8, 16))
            IN IF parentID # <<>> THEN Set(h2, zipkinHeaderParentSpanID, parentID) ELSE h2

\* ToL5D going on when X-B3-ParentSpanId is not hexadecimal.
ToL5D_IgnoreParentError(h) ==
    LET t == HexDecodeString(Get(h, zipkinHeaderTraceID))
        s == HexDecodeString(Get(h, zipkinHeaderSpanID))
        p == HexDecodeString(Get(h, zipkinHeaderParentSpanID))
        traceID == t.bytes
        spanID == s.bytes
        parentID == p.bytes
        same == [headers |-> h, panicked |-> FALSE]
    IN IF t.err THEN same
       ELSE IF s.err THEN same
       ELSE IF ~(Len(traceID) = 8 \/ Len(traceID) = 16) \/ Len(spanID) # 8 THEN same
       ELSE LET l0 == [panic |-> FALSE, buf |-> Zeros(24 + Len(traceID))]
                l1 == RangeAssign(l0.buf, 0, spanID)
                l2 == IF Len(parentID) = 8 THEN RangeAssign(l1.buf, 8, parentID) ELSE l1
                l3 == RangeAssign(l2.buf, 16, Slice(traceID, 0, 8))
                l4 == RangeAssign(l3.buf, 24, l5dTraceFlags)
                l5 == IF Len(traceID) = 16 THEN RangeAssign(l4.buf, 32, traceID) ELSE l4
            IN IF l1.panic \/ l2.panic \/ l3.panic \/ l4.panic \/ l5.panic
               THEN [headers |-> h, panicked |-> TRUE]
               ELSE [headers |-> Set(h, l5dHeaderTrace, Base64EncodeToString(l5.buf)),
                     panicked |-> FALSE]

\* ToL5D copying a parent id of any length.
ToL5D_ParentAnyLength(h) ==
    LET t == HexDecodeString(Get(h, zipkinHeaderTraceID))
        s == HexDecodeString(Get(h, zipkinHeaderSpanID))
        p == HexDecodeString(Get(h, zipkinHeaderParentSpanID))
        traceID == t.bytes
        spanID == s.bytes
        parentID == p.bytes
        same == [headers |-> h, panicked |-> FALSE]
    IN IF t.err THEN same
       ELSE IF s.err THEN same
       ELSE IF p.err THEN same
       ELSE IF ~(Len(traceID) = 8 \/ Len(traceID) = 16) \/ Len(spanID) # 8 THEN same
       ELSE LET l0 == [panic |-> FALSE, buf |-> Zeros(24 + Len(traceID))]
                l1 == RangeAssign(l0.buf, 0, spanID)
                l2 == IF Len(parentID) # 0 THEN RangeAssign(l1.buf, 8, parentID) ELSE l1
                l3 == RangeAssign(l2.buf, 16, Slice(traceID, 0, 8))
                l4 == RangeAssign(l3.buf, 24, l5dTraceFlags)
                l5 == IF Len(traceID) = 16 THEN RangeAssign(l4.buf, 32, traceID) ELSE l4
            IN IF l1.panic \/ l2.panic \/ l3.panic \/ l4.panic \/ l5.panic
               THEN [headers |-> h, panicked |-> TRUE]
               ELSE [headers |-> Set(h, l5dHeaderTrace, Base64EncodeToString(l5.buf)),
                     panicked |-> FALSE]

\* The result is the header collection after the call and whether the call
\* panicked (l5dctx is local, so a panic leaves the collection as it was).
ToL5D(h) ==
    LET t == HexDecodeString(Get(h, zipkinHeaderTraceID))
        s == HexDecodeString(Get(h, zipkinHeaderSpanID))
        p == HexDecodeString(Get(h, zipkinHeaderParentSpanID))
        traceID == t.bytes
        spanID == s.bytes
        parentID == p.bytes
        same == [headers |-> h, panicked |-> FALSE]
    IN IF t.err THEN same
       ELSE IF s.err THEN same
       ELSE IF p.err THEN same
       ELSE IF ~(Len(traceID) = 8 \/ Len(traceID) = 16) \/ Len(spanID) # 8 THEN same
       ELSE LET l0 == [panic |-> FALSE, buf |-> Zeros(24 + Len(traceID))]
                l1 == RangeAssign(l0.buf, 0, spanID)
                l2 == IF Len(parentID) = 8 THEN RangeAssign(l1.buf, 8, parentID) ELSE l1
                l3 == RangeAssign(l2.buf, 16, Slice(traceID, 0, 8))
                l4 == RangeAssign(l3.buf, 24, l5dTraceFlags)
                l5 == IF Len(traceID) = 16 THEN RangeAssign(l4.buf, 32, traceID) ELSE l4
            IN IF l1.panic \/ l2.panic \/ l3.panic \/ l4.panic \/ l5.panic
               THEN [headers |-> h, panicked |-> TRUE]
               ELSE [headers |-> Set(h, l5dHeaderTrace, Base64EncodeToString(l5.buf)),
                     panicked |-> FALSE]

(***************************************************************************)
(* strconv.ParseFloat, for the plain decimal grammar (sign, digits, one    *)
(* optional point) and the special values NaN and Inf.  A float64 is       *)
(* [kind, neg, mant, scale]: (-1)^neg * mant / 10^scale when kind = "fin". *)
(***************************************************************************)
NaN == [kind |-> "nan", neg |-> FALSE, mant |-> 0, scale |-> 0]

Inf(neg) == [kind |-> "inf", neg |-> neg, mant |-> 0, scale |-> 0]

Fin(neg, mant, scale) == [kind |-> "fin", neg |-> neg, mant |-> mant, scale |-> scale]

Lower(c) == IF c >= 65 /\ c <= 90 THEN c + 32 ELSE c

EqualIgnoreCase(s, t) ==
    Len(s) = Len(t) /\ \A i \in 1..Len(s) : Lower(s[i]) = Lower(t[i])

IsDigit(c) == c >= 48 /\ c <= 57

RECURSIVE DigitsValue(_)
DigitsValue(s) ==
    IF Len(s) = 0 THEN 0
    ELSE DigitsValue(SubSeq(s, 1, Len(s) - 1)) * 10 + (s[Len(s)] - 48)

RECURSIVE Pow10(_)
Pow10(n) == IF n = 0 THEN 1 ELSE 10 * Pow10(n - 1)

ParseFloat(s) ==
    LET bad == [err |-> TRUE, f |-> Fin(FALSE, 0, 0)]
        signed == Len(s) > 0 /\ (s[1] = 43 \/ s[1] = 45)
        neg == Len(s) > 0 /\ s[1] = 45
        body == IF signed THEN Tail(s) ELSE s
        dots == {i \in 1..Len(body) : body[i] = 46}
        dot == IF dots = {} THEN Len(body) + 1 ELSE CHOOSE i \in dots : TRUE
        int == SubSeq(body, 1, dot - 1)
        frac == SubSeq(body, dot + 1, Len(body))
    IN IF EqualIgnoreCase(s, <<110, 97, 110>>) THEN [err |-> FALSE, f |-> NaN]
       ELSE IF EqualIgnoreCase(body, <<105, 110, 102>>)
               \/ EqualIgnoreCase(body, <<105, 110, 102, 105, 110, 105, 116, 121>>)
       THEN [err |-> FALSE, f |-> Inf(neg)]
       ELSE IF Cardinality(dots) > 1 THEN bad
       ELSE IF Len(int) + Len(frac) = 0 THEN bad
       ELSE IF \E i \in 1..Len(int) : ~IsDigit(int[i]) THEN bad
       ELSE IF \E i \in 1..Len(frac) : ~IsDigit(frac[i]) THEN bad
       ELSE [err |-> FALSE, f |-> Fin(neg, DigitsValue(int \o frac), Len(frac))]

\* rate >= 0.0 (false for NaN, true for -0.0)
GeqZero(rate) ==
    /\ rate.kind # "nan"
    /\ ~rate.neg \/ (rate.kind = "fin" /\ rate.mant = 0)

\* rate <= 1.0 (false for NaN)
LeqOne(rate) ==
    /\ rate.kind # "nan"
    /\ rate.neg \/ (rate.kind = "fin" /\ rate.mant <= Pow10(rate.scale))

\* float64(m) < rate * 10000 for 0 <= m < 10000 (false for NaN)
LessThanRateTimes10000(m, rate) ==
    IF rate.kind = "nan" THEN FALSE
    ELSE IF rate.kind = "inf" THEN ~rate.neg
    ELSE IF rate.neg THEN FALSE
    ELSE m * Pow10(rate.scale) < rate.mant * 10000

(***************************************************************************)
(* uint64 values are 8 bytes, most significant first.                      *)
(***************************************************************************)
RECURSIVE XorBits(_, _, _)
XorBits(a, b, n) ==
    IF n = 0 THEN 0
    ELSE (((a % 2) + (b % 2)) % 2) + 2 * XorBits(a \div 2, b \div 2, n - 1)

Xor64(a, b) == [i \in 1..8 |-> XorBits(a[i], b[i], 8)]

\* v % 10000
RECURSIVE Mod10000(_)
Mod10000(v) ==
    IF Len(v) = 0 THEN 0
    ELSE (Mod10000(SubSeq(v, 1, Len(v) - 1)) * 256 + v[Len(v)]) % 10000

\* binary.BigEndian.Uint64(b): the first 8 bytes of b.
BigEndianUint64(b) == Slice(b, 0, 8)

(***************************************************************************)
(* The OpenCensus propagation format                                       *)
(***************************************************************************)
\* v is unsigned, so "if v < 0 { v = -v }" never changes it.
sample(rate, traceID, salt) ==
    IF GeqZero(rate) THEN FALSE
    ELSE IF LeqOne(rate) THEN TRUE
    ELSE LET v == Xor64(traceID, salt)
         IN LessThanRateTimes10000(Mod10000(v), rate)

ZeroSpanContext == [TraceID |-> Zeros(16), SpanID |-> Zeros(8), TraceOptions |-> 0]

\* trace.SpanContext.IsSampled: TraceOptions & 1 == 1
IsSampled(c) == c.TraceOptions % 2 = 1

\* SpanContextFromRequest taking the high trace id half from the flags field.
SpanContextFromRequest_FlagsAsHigh(h, salt) ==
    LET ctx == ZeroSpanContext
        d == Base64DecodeString(Get(h, l5dHeaderTrace))
        b == d.bytes
    IN IF d.err THEN [sc |-> ctx, ok |-> FALSE]
       ELSE IF Len(b) # 32 /\ Len(b) # 40 THEN [sc |-> ctx, ok |-> FALSE]
       ELSE LET t1 == IF Len(b) = 40
                      THEN Copy(ctx.TraceID, 0, 8, Slice(b, 24, 32))
                      ELSE ctx.TraceID
                t2 == Copy(t1, 8, 16, Slice(b, 16, 24))
                s1 == Copy(ctx.SpanID, 0, 8, Slice(b, 0, 8))
                pf == ParseFloat(Get(h, l5dHeaderSample))
                opts == IF ~pf.err /\ sample(pf.f, BigEndianUint64(t2), salt)
                        THEN 1 ELSE ctx.TraceOptions
            IN [sc |-> [TraceID |-> t2, SpanID |-> s1, TraceOptions |-> opts],
                ok |-> TRUE]

SpanContextFromRequest(h, salt) ==
    LET ctx == ZeroSpanContext
        d == Base64DecodeString(Get(h, l5dHeaderTrace))
        b == d.bytes
    IN IF d.err THEN [sc |-> ctx, ok |-> FALSE]
       ELSE IF Len(b) # 32 /\ Len(b) # 40 THEN [sc |-> ctx, ok |-> FALSE]
       ELSE LET t1 == IF Len(b) = 40
                      THEN Copy(ctx.TraceID, 0, 8, Slice(b, 32, Len(b)))
                      ELSE ctx.TraceID
                t2 == Copy(t1, 8, 16, Slice(b, 16, 24))
                s1 == Copy(ctx.SpanID, 0, 8, Slice(b, 0, 8))
                pf == ParseFloat(Get(h, l5dHeaderSample))
                opts == IF ~pf.err /\ sample(pf.f, BigEndianUint64(t2), salt)
                        THEN 1 ELSE ctx.TraceOptions
            IN [sc |-> [TraceID |-> t2, SpanID |-> s1, TraceOptions |-> opts],
                ok |-> TRUE]

\* SpanContextToRequest with the trace id halves exchanged.
SpanContextToRequest_SwapHalves(c, h) ==
    LET l0 == Zeros(40)
        l1 == Copy(l0, 0, 8, c.SpanID)
        l2 == Copy(l1, 16, 24, Slice(c.TraceID, 0, 8))
        l3 == Copy(l2, 24, 32, l5dTraceFlags)
        l4 == Copy(l3, 32, 40, Slice(c.TraceID, 8, 16))
        h1 == Set(h, l5dHeaderTrace, Base64EncodeToString(l4))
    IN IF IsSampled(c) THEN Set(h1, l5dHeaderSample, l5dForceSample) ELSE h1

\* SpanContextToRequest forcing sampling on any trace option bit.
SpanContextToRequest_AnyOption(c, h) ==
    LET l0 == Zeros(40)
        l1 == Copy(l0, 0, 8, c.SpanID)
        l2 == Copy(l1, 16, 24, Slice(c.TraceID, 8, 16))
        l3 == Copy(l2, 24, 32, l5dTraceFlags)
        l4 == Copy(l3, 32, 40, Slice(c.TraceID, 0, 8))
        h1 == Set(h, l5dHeaderTrace, Base64EncodeToString(l4))
    IN IF c.TraceOptions # 0 THEN Set(h1, l5dHeaderSample, l5dForceSample) ELSE h1

\* SpanContextToRequest leaving the flags field zero.
SpanContextToRequest_NoFlags(c, h) ==
    LET l0 == Zeros(40)
        l1 == Copy(l0, 0, 8, c.SpanID)
        l2 == Copy(l1, 16, 24, Slice(c.TraceID, 8, 16))
        l4 == Copy(l2, 32, 40, Slice(c.TraceID, 0, 8))
        h1 == Set(h, l5dHeaderTrace, Base64EncodeToString(l4))
    IN IF IsSampled(c) THEN Set(h1, l5dHeaderSample, l5dForceSample) ELSE h1

SpanContextToRequest(c, h) ==
    LET l0 == Zeros(40)
        l1 == Copy(l0, 0, 8, c.SpanID)
        l2 == Copy(l1, 16, 24, Slice(c.TraceID, 8, 16))
        l3 == Copy(l2, 24, 32, l5dTraceFlags)
        l4 == Copy(l3, 32, 40, Slice(c.TraceID, 0, 8))
        h1 == Set(h, l5dHeaderTrace, Base64EncodeToString(l4))
    IN IF IsSampled(c) THEN Set(h1, l5dHeaderSample, l5dForceSample) ELSE h1

(***************************************************************************)
(* Inputs: identifiers, mesh headers as a peer may send them, Zipkin       *)
(* headers as a tracer may leave them.                                     *)
(***************************************************************************)
IdTable == << <<0, 0, 0, 0, 0, 0, 0, 66>>,
              <<255, 254, 171, 205, 239, 128, 16, 250>>,
              <<1, 2, 3, 4, 5, 6, 7, 8>>,
              <<16, 0, 0, 0, 0, 0, 0, 0>> >>

Ids == {IdTable[i] : i \in 1..NumIds}

ParentIds == Ids \cup {Zeros(8)}

FlagValues == {l5dTraceFlags, <<128, 0, 0, 0, 0, 0, 0, 1>>}

Salts == {Zeros(8), <<222, 173, 190, 239, 0, 0, 39, 15>>}

\* The mesh's layout: spanID:8 parentID:8 traceIDLow:8 flags:8 [traceIDHigh:8]
Layouts == {sp \o pa \o lo \o fl \o hi :
              sp \in Ids, pa \in ParentIds, lo \in Ids, fl \in FlagValues,
              hi \in Ids \cup {<<>>}}

WrongLengths == {8, 24, 31, 33, 39, 41, 48}

\* Byte arrays of a length the codecs must reject.
WrongLayouts == {SubSeq(w \o l5dTraceFlags, 1, n) :
                   w \in {x \in Layouts : Len(x) = 40}, n \in WrongLengths}

\* Renderings of a base64 text that the decoder accepts ...
GoodForms == {"plain", "newline", "trailbits"}

\* ... and renderings that it rejects.
BadForms == {"badchar", "nopad", "garbage"}

IndexOfLastSymbol(e) ==
    IF e[Len(e)] # PadChar THEN Len(e)
    ELSE IF e[Len(e) - 1] # PadChar THEN Len(e) - 1 ELSE Len(e) - 2

Render(form, w) ==
    LET e == Base64EncodeToString(w)
        k == IndexOfLastSymbol(e)
    IN CASE form = "plain" -> e
         [] form = "newline" -> SubSeq(e, 1, 4) \o <<13, 10>> \o SubSeq(e, 5, Len(e)) \o <<10>>
         [] form = "trailbits" -> [e EXCEPT ![k] = B64Char(B64Value(e[k]) + 1)]
         [] form = "badchar" -> [e EXCEPT ![2] = 33]
         [] form = "nopad" -> SubSeq(e, 1, k)
         [] form = "garbage" -> e \o <<65>>

\* l5d-ctx-trace as received: the list of values, the bytes the sender
\* packed, and whether the value is a base64 text of those bytes.
L5DInputs ==
    {[list |-> <<Render(f, w)>>, layout |-> w, b64 |-> TRUE] :
        w \in Layouts, f \in GoodForms}
    \cup {[list |-> <<Render(f, w)>>, layout |-> w, b64 |-> FALSE] :
        w \in Layouts, f \in BadForms}
    \cup {[list |-> <<Render("plain", w)>>, layout |-> w, b64 |-> TRUE] :
        w \in WrongLayouts}
    \cup {[list |-> <<>>, layout |-> <<>>, b64 |-> TRUE],
          [list |-> << <<>> >>, layout |-> <<>>, b64 |-> TRUE]}

\* l5d-sample as received: absent, "1.0", "0.5", "0", "-1.0", "-0",
\* "2.5", "NaN", "-inf", "abc".
SampleLists ==
    {<<>>, <<l5dForceSample>>, << <<48, 46, 53>> >>, << <<48>> >>,
     << <<45, 49, 46, 48>> >>, << <<45, 48>> >>, << <<50, 46, 53>> >>,
     << <<78, 97, 78>> >>, << <<45, 105, 110, 102>> >>, << <<97, 98, 99>> >>}

\* Zipkin headers a request may already carry when FromL5D runs.
StaleZipkin ==
    [EmptyHeader EXCEPT
       ![zipkinHeaderTraceID] = <<HexEncodeToString(IdTable[3]), HexEncodeToString(IdTable[1])>>,
       ![zipkinHeaderSpanID] = <<HexEncodeToString(IdTable[3])>>,
       ![zipkinHeaderParentSpanID] = <<HexEncodeToString(IdTable[3])>>,
       ![zipkinHeaderSampled] = << <<49>> >>,
       ![zipkinHeaderFlags] = << <<49>> >>]

PriorZipkin == {EmptyHeader, StaleZipkin}

\* Renderings of a byte string as the value of an X-B3-* header.
HexRender(form, b) ==
    LET e == HexEncodeToString(b)
    IN CASE form = "lower" -> e
         [] form = "upper" -> [i \in 1..Len(e) |-> IF e[i] >= 97 THEN e[i] - 32 ELSE e[i]]
         [] form = "nonhex" -> [e EXCEPT ![1] = 122]
         [] form = "odd" -> e \o <<48>>

\* An X-B3-* header as the caller set it: the list of values, the bytes
\* meant, and whether the value is a hexadecimal text of those bytes.
\* An absent header and an empty value both read as the empty string.
HexInputs(values, ids) ==
    {[list |-> <<HexRender("lower", b)>>, bytes |-> b, hex |-> TRUE] : b \in values}
    \cup {[list |-> <<HexRender("upper", b)>>, bytes |-> b, hex |-> TRUE] : b \in ids}
    \cup {[list |-> <<HexRender(f, b)>>, bytes |-> b, hex |-> FALSE] :
            b \in ids, f \in {"nonhex", "odd"}}
    \cup {[list |-> <<>>, bytes |-> <<>>, hex |-> TRUE],
          [list |-> << <<>> >>, bytes |-> <<>>, hex |-> TRUE]}

ShortId == <<0, 0, 0, 42>>

TraceInputs ==
    HexInputs(Ids \cup {hi \o lo : hi \in Ids, lo \in Ids}
                  \cup {ShortId, IdTable[1] \o ShortId}, Ids)

SpanInputs == HexInputs(Ids \cup {ShortId, IdTable[1] \o IdTable[2]}, {IdTable[1]})

ParentInputs == HexInputs(ParentIds \cup {ShortId, IdTable[1] \o IdTable[2]}, {IdTable[1]})

\* l5d-ctx-trace values a request may already carry when ToL5D or
\* SpanContextToRequest runs.
OldTrace == Base64EncodeToString(IdTable[3] \o Zeros(8) \o IdTable[3] \o l5dTraceFlags)

PriorTraceLists == {<<>>, <<OldTrace>>, <<OldTrace, <<65, 65, 65, 65>> >>}

OutboundRequests ==
    {EmptyHeader,
     [EmptyHeader EXCEPT ![l5dHeaderSample] = << <<48, 46, 53>> >>,
                         ![l5dHeaderTrace] = <<OldTrace, <<65, 65, 65, 65>> >>],
     [StaleZipkin EXCEPT ![l5dHeaderSample] = << <<45, 49, 46, 48>>, <<48>> >>]}

SpanContexts ==
    {[TraceID |-> hi \o lo, SpanID |-> sp, TraceOptions |-> o] :
        hi \in Ids \cup {Zeros(8)}, lo \in Ids, sp \in Ids, o \in 0..3}

\* 0, -0, 0.5, 1.0, 2.5, -1.0, -0.0001, -2.5, NaN, +Inf, -Inf
Rates == {Fin(FALSE, 0, 0), Fin(TRUE, 0, 0), Fin(FALSE, 5, 1), Fin(FALSE, 10, 1),
          Fin(FALSE, 25, 1), Fin(TRUE, 10, 1), Fin(TRUE, 1, 4), Fin(TRUE, 25, 1),
          NaN, Inf(FALSE), Inf(TRUE)}

NoGiven == [layout |-> <<>>, b64 |-> FALSE,
            trace |-> <<>>, span |-> <<>>, parent |-> <<>>,
            traceHex |-> FALSE, spanHex |-> FALSE, parentHex |-> FALSE]

TypeOK ==
    /\ DOMAIN headers = HeaderNames
    /\ DOMAIN inHeaders = HeaderNames
    /\ Len(sc.TraceID) = 16 /\ Len(sc.SpanID) = 8
    /\ ok \in BOOLEAN /\ panicked \in BOOLEAN /\ sampled \in BOOLEAN
    /\ sampleSalt \in Salts
    /\ hops \in 0..MaxHops
    /\ op \in {"init", "FromL5D", "ToL5D", "Extract", "Inject", "Propagate",
               "HopExtract", "sample"}

\* The codecs keep no state between calls (the salt aside), so every call
\* is taken from the initial state.
Init ==
    /\ headers = EmptyHeader
    /\ inHeaders = EmptyHeader
    /\ sc = ZeroSpanContext
    /\ ok = FALSE
    /\ inSC = ZeroSpanContext
    /\ panicked = FALSE
    /\ sampled = FALSE
    /\ inSample = [rate |-> Fin(FALSE, 0, 0), traceID |-> Zeros(8)]
    /\ sampleSalt \in Salts
    /\ given = NoGiven
    /\ op = "init"
    /\ hops = 0

\* linkin.FromL5D(headers) on an inbound request.
CallFromL5D ==
    /\ op = "init"
    /\ \E v \in L5DInputs, base \in PriorZipkin :
        LET h == [base EXCEPT ![l5dHeaderTrace] = v.list]
        IN /\ inHeaders' = h
           /\ headers' = FromL5D(h)
           /\ given' = [NoGiven EXCEPT !.layout = v.layout, !.b64 = v.b64]
           /\ panicked' = FALSE
           /\ op' = "FromL5D"
           /\ hops' = 0
           /\ UNCHANGED <<sc, ok, inSC, sampled, inSample, sampleSalt>>

\* linkin.ToL5D(headers) on an outbound request.
CallToL5D ==
    /\ op = "init"
    /\ \E t \in TraceInputs, s \in SpanInputs, p \in ParentInputs, old \in PriorTraceLists :
        LET h == [EmptyHeader EXCEPT ![zipkinHeaderTraceID] = t.list,
                                     ![zipkinHeaderSpanID] = s.list,
                                     ![zipkinHeaderParentSpanID] = p.list,
                                     ![l5dHeaderTrace] = old]
            res == ToL5D(h)
        IN /\ inHeaders' = h
           /\ headers' = res.headers
           /\ panicked' = res.panicked
           /\ given' = [NoGiven EXCEPT !.trace = t.bytes, !.traceHex = t.hex,
                                       !.span = s.bytes, !.spanHex = s.hex,
                                       !.parent = p.bytes, !.parentHex = p.hex]
           /\ op' = "ToL5D"
           /\ hops' = 0
           /\ UNCHANGED <<sc, ok, inSC, sampled, inSample, sampleSalt>>

\* ochttp.Handler: SpanContextFromRequest on a request arriving from the mesh.
Extract ==
    /\ op = "init"
    /\ \E v \in L5DInputs, s \in SampleLists :
        LET h == [EmptyHeader EXCEPT ![l5dHeaderTrace] = v.list,
                                     ![l5dHeaderSample] = s]
            res == SpanContextFromRequest(h, sampleSalt)
        IN /\ inHeaders' = h
           /\ headers' = h
           /\ sc' = res.sc
           /\ ok' = res.ok
           /\ given' = [NoGiven EXCEPT !.layout = v.layout, !.b64 = v.b64]
           /\ panicked' = FALSE
           /\ op' = "Extract"
           /\ hops' = 0
           /\ UNCHANGED <<inSC, sampled, inSample, sampleSalt>>

\* ochttp.Transport: SpanContextToRequest with the context of a local span.
Inject ==
    /\ op = "init"
    /\ \E c \in SpanContexts, h \in OutboundRequests :
        /\ inHeaders' = h
        /\ inSC' = c
        /\ headers' = SpanContextToRequest(c, h)
        /\ given' = NoGiven
        /\ panicked' = FALSE
        /\ op' = "Inject"
        /\ hops' = 0
        /\ UNCHANGED <<sc, ok, sampled, inSample, sampleSalt>>

\* A hop re-encodes the context it decoded into its outbound request.
Propagate ==
    /\ op \in {"Extract", "HopExtract"}
    /\ ok
    /\ \E h \in OutboundRequests :
        /\ inHeaders' = h
        /\ inSC' = sc
        /\ headers' = SpanContextToRequest(sc, h)
    /\ panicked' = FALSE
    /\ op' = "Propagate"
    /\ UNCHANGED <<sc, ok, sampled, inSample, sampleSalt, given, hops>>

\* The next hop, a process with a salt of its own, decodes the headers the
\* previous hop wrote.
HopExtract ==
    /\ op \in {"Inject", "Propagate"}
    /\ hops < MaxHops
    /\ \E salt \in Salts :
        LET res == SpanContextFromRequest(headers, salt)
        IN /\ sampleSalt' = salt
           /\ sc' = res.sc
           /\ ok' = res.ok
    /\ hops' = hops + 1
    /\ panicked' = FALSE
    /\ op' = "HopExtract"
    /\ UNCHANGED <<headers, inHeaders, inSC, sampled, inSample, given>>

\* sample(rate, traceID) called on its own.
CallSample ==
    /\ op = "init"
    /\ \E rate \in Rates, t \in Ids \cup {Zeros(8)} :
        /\ inSample' = [rate |-> rate, traceID |-> t]
        /\ sampled' = sample(rate, t, sampleSalt)
        /\ op' = "sample"
        /\ panicked' = FALSE
        /\ hops' = 0
        /\ UNCHANGED <<headers, inHeaders, sc, ok, inSC, sampleSalt, given>>

Next ==
    \/ CallFromL5D
    \/ CallToL5D
    \/ Extract
    \/ Inject
    \/ Propagate
    \/ HopExtract
    \/ CallSample

Spec == Init /\ [][Next]_vars

(***************************************************************************)
(* Properties                                                              *)
(***************************************************************************)
\* The lowercase hexadecimal text of a byte string, two characters a byte.
HexDigits == <<48, 49, 50, 51, 52, 53, 54, 55, 56, 57, 97, 98, 99, 100, 101, 102>>

LowerHex(b) ==
    [i \in 1..(2 * Len(b)) |->
        IF i % 2 = 1 THEN HexDigits[(b[(i + 1) \div 2] \div 16) + 1]
        ELSE HexDigits[(b[i \div 2] % 16) + 1]]

\* The inbound l5d-ctx-trace value is a base64 text of 32 or 40 bytes.
GoodTraceHeader == given.b64 /\ Len(given.layout) \in {32, 40}

\* C1: encoding a SpanContext into an empty request and decoding that
\* request gives ok = true and the same traceID and spanID bytes.
C1_RoundTrip ==
    (op = "HopExtract" /\ inHeaders = EmptyHeader) =>
        /\ ok
        /\ sc.TraceID = inSC.TraceID
        /\ sc.SpanID = inSC.SpanID

C1_Witness ==
    /\ op = "HopExtract"
    /\ inHeaders = EmptyHeader
    /\ given = NoGiven
    /\ hops = 1
    /\ inSC.TraceID = IdTable[2] \o IdTable[1]
    /\ inSC.SpanID = IdTable[2]
    /\ IsSampled(inSC)
    /\ ok
    /\ sc.TraceID = IdTable[2] \o IdTable[1]

\* C2: with a 16-byte X-B3-TraceId T (high||low) and an 8-byte X-B3-SpanId,
\* ToL5D returns normally and sets l5d-ctx-trace to the base64 of 40 bytes:
\* span id at [0:8], T[8:16] at [16:24], the flags at [24:32], T[0:8] at
\* [32:40].
C2_Export128 ==
    (/\ op = "ToL5D"
     /\ given.traceHex /\ Len(given.trace) = 16
     /\ given.spanHex /\ Len(given.span) = 8
     /\ given.parentHex) =>
        /\ ~panicked
        /\ Len(headers[l5dHeaderTrace]) = 1
        /\ LET d == Base64DecodeString(Get(headers, l5dHeaderTrace))
           IN /\ ~d.err
              /\ Len(d.bytes) = 40
              /\ Slice(d.bytes, 0, 8) = given.span
              /\ Slice(d.bytes, 16, 24) = Slice(given.trace, 8, 16)
              /\ Slice(d.bytes, 24, 32) = l5dTraceFlags
              /\ Slice(d.bytes, 32, 40) = Slice(given.trace, 0, 8)

\* C3: after SpanContextToRequest with a sampled context, every downstream
\* SpanContextFromRequest on the headers it wrote returns a sampled context.
C3_ForcedSamplingReachesNextHop ==
    (op = "HopExtract" /\ IsSampled(inSC)) => (ok /\ IsSampled(sc))

\* C4: sample returns false for every negative rate.
C4_NegativeRateNeverSampled ==
    (/\ op = "sample"
     /\ inSample.rate.kind # "nan"
     /\ inSample.rate.neg
     /\ ~(inSample.rate.kind = "fin" /\ inSample.rate.mant = 0)) => ~sampled

\* C5: when l5d-ctx-trace is absent, is not base64, or decodes to a length
\* other than 32 or 40, SpanContextFromRequest returns ok = false with the
\* zero SpanContext and FromL5D leaves the header collection unchanged.
C5_LengthGuard ==
    /\ (op = "Extract" /\ ~GoodTraceHeader) => (~ok /\ sc = ZeroSpanContext)
    /\ (op = "FromL5D" /\ ~GoodTraceHeader) => headers = inHeaders

C5_Witness ==
    /\ op = "FromL5D"
    /\ given.b64
    /\ Len(given.layout) = 33
    /\ inHeaders[zipkinHeaderSpanID] # <<>>
    /\ headers = inHeaders

\* C6: when one of X-B3-TraceId, X-B3-SpanId, X-B3-ParentSpanId is not
\* hexadecimal, or the trace id is not 8 or 16 bytes, or the span id is not
\* 8 bytes, ToL5D leaves the header collection unchanged.
C6_ExportAtomicity ==
    (/\ op = "ToL5D"
     /\ \/ ~given.traceHex
        \/ ~given.spanHex
        \/ ~given.parentHex
        \/ Len(given.trace) \notin {8, 16}
        \/ Len(given.span) # 8) => headers = inHeaders

C6_Witness ==
    /\ op = "ToL5D"
    /\ given.traceHex /\ Len(given.trace) = 8
    /\ given.spanHex /\ Len(given.span) = 8
    /\ ~given.parentHex
    /\ Len(inHeaders[l5dHeaderTrace]) = 2
    /\ headers = inHeaders

\* C7: SpanContextToRequest sets l5d-sample to "1.0" when the context is
\* sampled, leaves l5d-sample as the request carried it when the context is
\* not sampled, and sets l5d-ctx-trace in both cases.
C7_ForcedSampleHeader ==
    (op \in {"Inject", "Propagate"}) =>
        /\ IsSampled(inSC) => headers[l5dHeaderSample] = <<l5dForceSample>>
        /\ ~IsSampled(inSC) => headers[l5dHeaderSample] = inHeaders[l5dHeaderSample]
        /\ Len(headers[l5dHeaderTrace]) = 1
        /\ LET d == Base64DecodeString(Get(headers, l5dHeaderTrace))
           IN ~d.err /\ Len(d.bytes) = 40

C7_Witness ==
    /\ op = "Inject"
    /\ inSC.TraceOptions = 2
    /\ Len(inHeaders[l5dHeaderSample]) = 2
    /\ headers[l5dHeaderSample] = inHeaders[l5dHeaderSample]
    /\ Len(inHeaders[l5dHeaderTrace]) = 0
    /\ Len(headers[l5dHeaderTrace]) = 1

\* The layout with the parent id and the flags zeroed.
Neutral(b) == Copy(Copy(b, 8, 16, Zeros(8)), 24, 32, Zeros(8))

\* C8: when l5d-ctx-trace decodes to b of 32 or 40 bytes,
\* SpanContextFromRequest returns ok = true whatever l5d-sample is, with
\* spanID = b[0:8], traceID[8:16] = b[16:24], traceID[0:8] = b[32:40] (zero
\* for 32 bytes); b[8:16] and b[24:32] do not influence the result.
C8_DecodeSuccess ==
    (op = "Extract" /\ GoodTraceHeader) =>
        LET b == given.layout
            other == SpanContextFromRequest(
                        Set(inHeaders, l5dHeaderTrace, Base64EncodeToString(Neutral(b))),
                        sampleSalt)
        IN /\ ok
           /\ sc.SpanID = Slice(b, 0, 8)
           /\ Slice(sc.TraceID, 8, 16) = Slice(b, 16, 24)
           /\ Slice(sc.TraceID, 0, 8) = IF Len(b) = 40 THEN Slice(b, 32, 40) ELSE Zeros(8)
           /\ other.ok
           /\ other.sc = sc

C8_Witness ==
    /\ op = "Extract"
    /\ GoodTraceHeader
    /\ Len(given.layout) = 32
    /\ Slice(given.layout, 8, 16) = IdTable[2]
    /\ Slice(given.layout, 24, 32) # l5dTraceFlags
    /\ ok
    /\ IsSampled(sc)
    /\ Slice(sc.TraceID, 0, 8) = Zeros(8)
    /\ Slice(sc.TraceID, 8, 16) = IdTable[1]

\* The 32 bytes C9 describes for an 8-byte trace id.
C9_Expected ==
    given.span
    \o (IF given.parentHex /\ Len(given.parent) = 8 THEN given.parent ELSE Zeros(8))
    \o given.trace
    \o <<0, 0, 0, 0, 0, 0, 0, 6>>

C9_Outcome ==
    /\ ~panicked
    /\ headers[l5dHeaderTrace] = <<Base64EncodeToString(C9_Expected)>>
    /\ \A k \in ZipkinNames : headers[k] = inHeaders[k]

\* C9 as stated: with an 8-byte X-B3-TraceId and an 8-byte X-B3-SpanId,
\* ToL5D sets l5d-ctx-trace to the base64 of span id, parent id (zero unless
\* X-B3-ParentSpanId decodes to 8 bytes), trace id and the flags constant,
\* and modifies no X-B3-* header.
C9_Export64_AsStated ==
    (/\ op = "ToL5D"
     /\ given.traceHex /\ Len(given.trace) = 8
     /\ given.spanHex /\ Len(given.span) = 8) => C9_Outcome

\* C9 amended: the same, provided X-B3-ParentSpanId is hexadecimal (of any
\* length, empty or absent included); a ParentSpanId that is not
\* hexadecimal aborts the export.
C9_Export64 ==
    (/\ op = "ToL5D"
     /\ given.traceHex /\ Len(given.trace) = 8
     /\ given.spanHex /\ Len(given.span) = 8
     /\ given.parentHex) => C9_Outcome

C9_Witness ==
    /\ op = "ToL5D"
    /\ given.traceHex /\ given.trace = IdTable[1]
    /\ given.spanHex /\ given.span = IdTable[2]
    /\ given.parentHex /\ given.parent = ShortId
    /\ inHeaders[l5dHeaderTrace] # <<>>
    /\ headers[l5dHeaderTrace] =
          <<Base64EncodeToString(IdTable[2] \o Zeros(8) \o IdTable[1] \o l5dTraceFlags)>>

\* C10: when l5d-ctx-trace decodes to b of 32 or 40 bytes, FromL5D sets
\* X-B3-SpanId to the 16 lowercase hex characters of b[0:8], X-B3-ParentSpanId
\* to those of b[8:16] (all zero included), X-B3-TraceId to the 32 characters
\* of b[32:40]||b[16:24] (40 bytes) or the 16 characters of b[16:24] (32
\* bytes); X-B3-Sampled, X-B3-Flags and l5d-ctx-trace stay as they were.
C10_ImportShape ==
    (op = "FromL5D" /\ GoodTraceHeader) =>
        LET b == given.layout
        IN /\ headers[zipkinHeaderSpanID] = <<LowerHex(Slice(b, 0, 8))>>
           /\ headers[zipkinHeaderParentSpanID] = <<LowerHex(Slice(b, 8, 16))>>
           /\ headers[zipkinHeaderTraceID] =
                 IF Len(b) = 40
                 THEN <<LowerHex(Slice(b, 32, 40) \o Slice(b, 16, 24))>>
                 ELSE <<LowerHex(Slice(b, 16, 24))>>
           /\ Len(headers[zipkinHeaderTraceID][1]) = (IF Len(b) = 40 THEN 32 ELSE 16)
           /\ headers[zipkinHeaderSampled] = inHeaders[zipkinHeaderSampled]
           /\ headers[zipkinHeaderFlags] = inHeaders[zipkinHeaderFlags]
           /\ headers[l5dHeaderTrace] = inHeaders[l5dHeaderTrace]

C10_Witness ==
    /\ op = "FromL5D"
    /\ GoodTraceHeader
    /\ Len(given.layout) = 40
    /\ Slice(given.layout, 8, 16) = Zeros(8)
    /\ Slice(given.layout, 32, 40) # Slice(given.layout, 16, 24)
    /\ inHeaders[zipkinHeaderSampled] # <<>>
    /\ Len(inHeaders[zipkinHeaderTraceID]) = 2
    /\ headers[zipkinHeaderParentSpanID] = <<[i \in 1..16 |-> 48]>>

\* C11: along a chain of hops that each decode the inbound headers and
\* encode the resulting context into the outbound request, started by a
\* valid 32- or 40-byte l5d-ctx-trace, every outbound l5d-ctx-trace is the
\* 40-byte form with zero parent id and the flags constant, and carries the
\* span id and the trace id (zero-extended to 128 bits) of the original.
C11_TraceIdentity ==
    (op = "Propagate" /\ GoodTraceHeader) =>
        LET b == given.layout
            d == Base64DecodeString(Get(headers, l5dHeaderTrace))
        IN /\ Len(headers[l5dHeaderTrace]) = 1
           /\ ~d.err
           /\ Len(d.bytes) = 40
           /\ Slice(d.bytes, 0, 8) = Slice(b, 0, 8)
           /\ Slice(d.bytes, 8, 16) = Zeros(8)
           /\ Slice(d.bytes, 16, 24) = Slice(b, 16, 24)
           /\ Slice(d.bytes, 24, 32) = <<0, 0, 0, 0, 0, 0, 0, 6>>
           /\ Slice(d.bytes, 32, 40) = IF Len(b) = 40 THEN Slice(b, 32, 40) ELSE Zeros(8)

C11_Witness ==
    /\ op = "Propagate"
    /\ hops = 2
    /\ GoodTraceHeader
    /\ Len(given.layout) = 32
    /\ Slice(given.layout, 0, 8) = IdTable[2]
    /\ Slice(given.layout, 8, 16) = IdTable[1]
    /\ Slice(given.layout, 24, 32) # l5dTraceFlags
    /\ inHeaders[l5dHeaderTrace] # <<>>
    /\ headers[l5dHeaderTrace] =
          <<Base64EncodeToString(IdTable[2] \o Zeros(8) \o Slice(given.layout, 16, 24)
                                 \o l5dTraceFlags \o Zeros(8))>>

====
